---- MODULE Spec2Model ----
(***************************************************************************)
(* Model of ask_for.h: a console prompt loop that reads one line, fills    *)
(* typed slots from it by formatted stream extraction, checks a predicate  *)
(* and repeats until a line is accepted or the input ends.                 *)
(*                                                                         *)
(* A line is a sequence of one-character strings.  A stream state is the   *)
(* record of the three iostate bits.  Slot types are "int", "string",      *)
(* "char", "vector" (std::vector<int>) and "array" (std::array<int,ArrayN>)*)
(* and a request is the sequence of its slot types.                        *)
(***************************************************************************)
EXTENDS Integers, Sequences, FiniteSets, TLC

\* ------------------------------------------------------------------ bounds
MaxLineLen == 3
MaxAttempts == 2
ArrayN == 2
MaxScriptLen == 2

\* ------------------------------------------------- characters and lines
Alphabet == {"1", "-", "a", " ", "\t"}

Lines == UNION {[1..n -> Alphabet] : n \in 0..MaxLineLen}

\* The vertical tab (0x0b), which has no escape in a string.
VT == ""

\* std::ctype<char>::is(space, c) in the "C" locale, which std::cin and a
\* std::istringstream use: blank, TAB, LF, VT, FF and CR.
IsSpace(c) == c \in {" ", "\t", "\n", VT, "\f", "\r"}

IsDigit(c) == c \in {"0", "1", "2", "3", "4", "5", "6", "7", "8", "9"}

DigitVal(c) ==
    CASE c = "0" -> 0 [] c = "1" -> 1 [] c = "2" -> 2 [] c = "3" -> 3
      [] c = "4" -> 4 [] c = "5" -> 5 [] c = "6" -> 6 [] c = "7" -> 7
      [] c = "8" -> 8 [] c = "9" -> 9

\* ------------------------------------------------------ iostate bits
goodbit == [eof |-> FALSE, fail |-> FALSE, bad |-> FALSE]

good(st) == ~st.eof /\ ~st.fail /\ ~st.bad

eof(st) == st.eof

fail(st) == st.fail \/ st.bad

bad(st) == st.bad

setstate(st, bits) ==
    [eof |-> st.eof \/ bits.eof, fail |-> st.fail \/ bits.fail, bad |-> st.bad \/ bits.bad]

\* ------------------------------------ formatted extraction from a line
\* An input string stream: the line s, the get position pos (1-based index
\* of the next unread character) and the state bits st.
istringstream(s) == [s |-> s, pos |-> 1, st |-> goodbit]

RECURSIVE SkipWs(_, _)
SkipWs(s, p) == IF p <= Len(s) /\ IsSpace(s[p]) THEN SkipWs(s, p + 1) ELSE p

RECURSIVE DigitsEnd(_, _)
DigitsEnd(s, p) == IF p <= Len(s) /\ IsDigit(s[p]) THEN DigitsEnd(s, p + 1) ELSE p

\* std::numeric_limits<int>::max() and min().
INT_MAX == 2147483647

INT_MIN == -INT_MAX - 1

\* The digits of s from p up to (not including) e accumulated as num_get
\* does for a signed type, on the negative side so that the magnitude of
\* INT_MIN fits: acc is minus the value so far, and over is set as soon as
\* one more digit would leave the range; the remaining digits are still
\* consumed.
RECURSIVE DigitsVal(_, _, _, _)
DigitsVal(s, p, e, acc) ==
    IF p >= e THEN [over |-> FALSE, v |-> acc]
    ELSE IF acc < -(INT_MAX \div 10) \/ acc * 10 < INT_MIN + DigitVal(s[p])
    THEN [over |-> TRUE, v |-> INT_MIN]
    ELSE DigitsVal(s, p + 1, e, acc * 10 - DigitVal(s[p]))

\* The value num_get stores and whether it sets failbit, n being the
\* accumulated digits: a value outside the range of int is stored as
\* INT_MAX or INT_MIN, with failbit.
num_get_value(negative, n) ==
    IF negative
    THEN [fail |-> n.over, v |-> n.v]
    ELSE IF n.over \/ n.v = INT_MIN THEN [fail |-> TRUE, v |-> INT_MAX]
    ELSE [fail |-> FALSE, v |-> -n.v]

num_get_stored(a, e, r) ==
    [ss |-> [a EXCEPT !.pos = e, !.st.eof = (e > Len(a.s)), !.st.fail = r.fail],
     v |-> r.v]

RECURSIVE TokenEnd(_, _)
TokenEnd(s, p) == IF p <= Len(s) /\ ~IsSpace(s[p]) THEN TokenEnd(s, p + 1) ELSE p

\* Mutant of sentry_skipped: the end of the text met while skipping sets
\* eofbit only, so a missing token is not a failure.
sentry_skipped_eof_only(ss, p) ==
    IF p > Len(ss.s)
    THEN [ss EXCEPT !.pos = p, !.st.eof = TRUE]
    ELSE [ss EXCEPT !.pos = p]

\* std::istream::sentry with skipws: a stream that is not good fails at
\* once; otherwise leading whitespace is skipped up to position p, and
\* reaching the end of the text while skipping sets eofbit and failbit.
sentry_skipped(ss, p) ==
    IF p > Len(ss.s)
    THEN [ss EXCEPT !.pos = p, !.st.eof = TRUE, !.st.fail = TRUE]
    ELSE [ss EXCEPT !.pos = p]

sentry(ss) ==
    IF ~good(ss.st) THEN [ss EXCEPT !.st.fail = TRUE]
    ELSE sentry_skipped(ss, SkipWs(ss.s, ss.pos))

\* Mutant of num_get: the sign is consumed but not applied to the value.
num_get_unsigned(a, q, e) ==
    IF e = q
    THEN [ss |-> [a EXCEPT !.pos = e, !.st.eof = (e > Len(a.s)), !.st.fail = TRUE],
          v |-> 0]
    ELSE num_get_stored(a, e, num_get_value(FALSE, DigitsVal(a.s, q, e, 0)))

\* num_get for int on the stream a left by a successful sentry: an optional
\* sign at a.pos, the digits from q up to (not including) e.  No digit:
\* failbit, value 0.  Digits whose value is in the range of int: the value.
\* Digits whose value is not: failbit, value INT_MAX or INT_MIN, all digits
\* consumed.  The end of the text met while scanning sets eofbit.
num_get(a, q, e) ==
    IF e = q
    THEN [ss |-> [a EXCEPT !.pos = e, !.st.eof = (e > Len(a.s)), !.st.fail = TRUE],
          v |-> 0]
    ELSE num_get_stored(a, e, num_get_value(a.s[a.pos] = "-", DigitsVal(a.s, q, e, 0)))

num_get_signed(a, q) == num_get(a, q, DigitsEnd(a.s, q))

\* is >> int after its sentry a; a failed sentry leaves the value untouched.
int_after_sentry(a, v) ==
    IF ~good(a.st) THEN [ss |-> a, v |-> v]
    ELSE num_get_signed(a, IF a.s[a.pos] \in {"-", "+"} THEN a.pos + 1 ELSE a.pos)

extract_int(ss, v) == int_after_sentry(sentry(ss), v)

\* is >> std::string: the maximal run of non-space characters, ending at e.
string_token(a, e) ==
    [ss |-> [a EXCEPT !.pos = e, !.st.eof = (e > Len(a.s))],
     v |-> SubSeq(a.s, a.pos, e - 1)]

string_after_sentry(a, v) ==
    IF ~good(a.st) THEN [ss |-> a, v |-> v]
    ELSE string_token(a, TokenEnd(a.s, a.pos))

extract_string(ss, v) == string_after_sentry(sentry(ss), v)

\* is >> char: one non-space character; never sets eofbit by itself.
char_after_sentry(a, v) ==
    IF ~good(a.st) THEN [ss |-> a, v |-> v]
    ELSE [ss |-> [a EXCEPT !.pos = a.pos + 1], v |-> a.s[a.pos]]

extract_char(ss, v) == char_after_sentry(sentry(ss), v)

\* operator>>(istream&, array<T,N>&): every position is extracted in order,
\* whatever the outcome of the earlier ones.
RECURSIVE input_stream(_, _, _)
input_stream_next(r, array, i) ==
    input_stream(r.ss, [array EXCEPT ![i] = r.v], i + 1)

input_stream(ss, array, i) ==
    IF i > Len(array) THEN [ss |-> ss, v |-> array]
    ELSE input_stream_next(extract_int(ss, array[i]), array, i)

\* The loop of operator>>(istream&, vector<T>&): r is the outcome of
\* `is >> t`.  The local t is pushed only after a successful extraction,
\* which has overwritten it; its indeterminate initial value (here 0) never
\* flows anywhere.
RECURSIVE vector_loop(_, _)
vector_push_back(r, vector) ==
    IF fail(r.ss.st) THEN [ss |-> r.ss, v |-> vector]
    ELSE vector_loop(r.ss, Append(vector, r.v))

vector_loop(ss, vector) == vector_push_back(extract_int(ss, 0), vector)

\* Mutant of vector_clear_fail: the failure that ended the loop is kept.
vector_clear_fail_never(r) == r

\* After the loop: is.clear(is.rdstate() ^ failbit) when is.fail().
vector_clear_fail(r) ==
    IF fail(r.ss.st)
    THEN [ss |-> [r.ss EXCEPT !.st.fail = ~r.ss.st.fail], v |-> r.v]
    ELSE r

extract_vector(ss, vector) == vector_clear_fail(vector_loop(ss, vector))

\* ss >> t for a slot of the given type.
extract(type, ss, v) ==
    CASE type = "int" -> extract_int(ss, v)
      [] type = "string" -> extract_string(ss, v)
      [] type = "char" -> extract_char(ss, v)
      [] type = "array" -> input_stream(ss, v, 1)
      [] type = "vector" -> extract_vector(ss, v)

\* (ss >> t, 0)... : the slots are extracted in declaration order.
RECURSIVE fill(_, _, _, _)
fill_next(types, r, t, i) == fill(types, r.ss, [t EXCEPT ![i] = r.v], i + 1)

fill(types, ss, t, i) ==
    IF i > Len(types) THEN [ss |-> ss, t |-> t]
    ELSE fill_next(types, extract(types[i], ss, t[i]), t, i)

\* ------------------------------------------------------------- requests
SlotTypes == {"int", "string", "char", "array", "vector"}

\* The requests explored: every single-slot request and a sample of tuples.
Requests ==
    {<<ty>> : ty \in SlotTypes}
    \cup {<<"int", "string">>, <<"string", "int">>, <<"int", "vector">>, <<"char", "char">>}

DefaultMessage == "Enter input: "

DefaultConditionError == "Error: unmet condition"

DefaultParseError == "Error: parse error"

ExcessInputMessage == "Error: excess input\n"

CannotReadMessage == "Cannot read from stream\n"

CustomMessages == [message |-> "N? ", condition_error |-> "bad value", parse_error |-> "not a value"]

\* Caller predicates, generic over the slot type like a generic lambda.
Conditions == {"positive", "nonempty"}

Holds(condition, type, v) ==
    CASE condition = "always" -> TRUE
      [] condition = "positive" -> IF type = "int" THEN v > 0 ELSE TRUE
      [] condition = "nonempty" ->
            IF type \in {"string", "vector"} THEN Len(v) > 0 ELSE TRUE

\* A call of ask_for: the request T, whether the overload taking a condition
\* is the one called, and the arguments as the caller's call expression
\* evaluates them (an omitted argument has its default value).
Calls ==
    {[T |-> T, has_condition |-> TRUE, message |-> CustomMessages.message,
      condition |-> c, condition_error |-> m[1], parse_error |-> m[2]] :
        T \in Requests, c \in Conditions,
        m \in {<<DefaultConditionError, DefaultParseError>>,
               <<CustomMessages.condition_error, CustomMessages.parse_error>>}}
    \cup
    {[T |-> T, has_condition |-> FALSE, message |-> DefaultMessage,
      condition |-> "always", condition_error |-> DefaultConditionError,
      parse_error |-> pe] :
        T \in Requests, pe \in {DefaultParseError, CustomMessages.parse_error}}

\* The arguments that reach ask_for_impl from each of the four overloads.
ask_for_args(c) ==
    IF c.has_condition
    THEN [message |-> c.message, condition |-> c.condition,
          condition_error |-> c.condition_error, parse_error |-> c.parse_error]
    ELSE IF Len(c.T) >= 2
    THEN [message |-> c.message, condition |-> "always",
          condition_error |-> "", parse_error |-> c.parse_error]
    ELSE [message |-> c.message, condition |-> "always",
          condition_error |-> DefaultConditionError, parse_error |-> DefaultParseError]

\* ------------------------------------------------------- fresh slots
\* Values an uninitialised int or char may hold.
GarbageInts == {0, -1}

GarbageChars == {"a"}

\* `T t;` default-initialises: an int, a char and the elements of an array
\* are indeterminate; a string and a vector are empty.
DefaultInit(type) ==
    CASE type = "int" -> GarbageInts
      [] type = "char" -> GarbageChars
      [] type = "string" -> {<<>>}
      [] type = "vector" -> {<<>>}
      [] type = "array" -> [1..ArrayN -> GarbageInts]

\* `std::tuple<T...> tuple;` value-initialises every element.
ValueInit(type) ==
    CASE type = "int" -> 0
      [] type = "char" -> "NUL"
      [] type = "string" -> <<>>
      [] type = "vector" -> <<>>
      [] type = "array" -> [i \in 1..ArrayN |-> 0]

FreshSlots(T) ==
    IF Len(T) = 1 THEN {<<v>> : v \in DefaultInit(T[1])}
    ELSE {[i \in 1..Len(T) |-> ValueInit(T[i])]}

\* --------------------------------------------------------- console input
\* The characters extracted before a read fails: none, or some.
BadReads == {<<>>, <<"1">>}

\* What std::getline meets on std::cin: a terminated line, the end of the
\* input after the characters of text (none or some, with no terminator),
\* or a read that fails after the characters of text.
Inputs ==
    {[kind |-> "line", text |-> s] : s \in Lines}
    \cup {[kind |-> "eof", text |-> s] : s \in Lines}
    \cup {[kind |-> "bad", text |-> s] : s \in BadReads}

NoInput == [kind |-> "none", text |-> <<>>]

\* What std::getline is given by a stream it does not read from.
Unread == [kind |-> "unread", text |-> <<>>]

\* std::getline(is, s) on a stream in state st: the bits it sets.  On a
\* stream that is not good its sentry fails and nothing is extracted; a
\* call that extracts no character sets failbit.
getline(st, input) ==
    IF ~good(st) THEN [eof |-> FALSE, fail |-> TRUE, bad |-> FALSE]
    ELSE CASE input.kind = "line" -> goodbit
           [] input.kind = "eof" ->
                [eof |-> TRUE, fail |-> input.text = <<>>, bad |-> FALSE]
           [] input.kind = "bad" ->
                [eof |-> FALSE, fail |-> input.text = <<>>, bad |-> TRUE]

\* The lines a scripted std::cin holds (a test harness feeding the console):
\* an integer, a negative one, a word, an integer and a word, two integers,
\* an integer followed by a blank, the empty line, and INT_MAX + 1.
ScriptLines ==
    {<<"1">>, <<"-", "1">>, <<"a">>, <<"1", " ", "a">>, <<"1", " ", "1">>,
     <<"1", " ">>, <<>>, <<"2", "1", "4", "7", "4", "8", "3", "6", "4", "8">>}

\* A script: finitely many terminated lines, then the end of the input.
Scripts == UNION {[1..n -> ScriptLines] : n \in 0..MaxScriptLen}

\* std::cin as a source of lines.  An interactive console can deliver
\* anything at each read; a scripted one delivers lines[next] and, past the
\* last line, the end of the input.
Interactive == [scripted |-> FALSE, lines |-> <<>>, next |-> 1]

Scripted(lines) == [scripted |-> TRUE, lines |-> lines, next |-> 1]

\* What the next std::getline on the source can meet when it reads.
Available(in) ==
    IF ~in.scripted THEN Inputs
    ELSE IF in.next > Len(in.lines) THEN {[kind |-> "eof", text |-> <<>>]}
    ELSE {[kind |-> "line", text |-> in.lines[in.next]]}

\* The source after std::getline read from it.
Consumed(in) ==
    IF in.scripted /\ in.next <= Len(in.lines) THEN [in EXCEPT !.next = in.next + 1]
    ELSE in

\* std::getline on std::cin in state st: it reads from the source only when
\* the stream is good.
Met(st, in) == IF good(st) THEN Available(in) ELSE {Unread}

AfterRead(st, in) == IF good(st) THEN Consumed(in) ELSE in

\* ------------------------------------------------------------ the state
VARIABLES
    call,      \* the call of ask_for being executed
    pc,        \* "Prompting", "Reading", "Checking", "Accepted", "Aborted"
    t,         \* the slots of the current attempt (<<>> when none is alive)
    cin,       \* the state bits of std::cin
    out,       \* the transcript: <<channel, text>> in order of writing
    line,      \* what std::getline met in the current attempt
    result,    \* the value ask_for returned (<<>> before it returns)
    attempts,  \* iterations of the loop started
    stdin,     \* the source of lines behind std::cin
    evals      \* the arguments the caller's predicate was called with in
               \* the current attempt, in order

vars == <<call, pc, t, cin, out, line, result, attempts, stdin, evals>>

Init ==
    /\ call \in Calls
    /\ pc = "Prompting"
    /\ t = <<>>
    /\ cin = goodbit
    /\ out = <<>>
    /\ line = NoInput
    /\ result = <<>>
    /\ attempts = 0
    /\ stdin = Interactive
    /\ evals = <<>>

\* The same call on a scripted console.
ScriptInit ==
    /\ call \in Calls
    /\ pc = "Prompting"
    /\ t = <<>>
    /\ cin = goodbit
    /\ out = <<>>
    /\ line = NoInput
    /\ result = <<>>
    /\ attempts = 0
    /\ stdin \in {Scripted(lines) : lines \in Scripts}
    /\ evals = <<>>

\* Mutant of Prompting: the prompt is written before the loop, once.
Prompting_prompt_once ==
    /\ pc = "Prompting"
    /\ stdin.scripted \/ attempts < MaxAttempts
    /\ t' \in FreshSlots(call.T)
    /\ out' = IF attempts = 0 THEN Append(out, <<"cout", ask_for_args(call).message>>)
              ELSE out
    /\ attempts' = attempts + 1
    /\ pc' = "Reading"
    /\ line' = NoInput
    /\ evals' = <<>>
    /\ UNCHANGED <<call, cin, result, stdin>>

\* Mutant of Prompting: the slots are declared outside the loop, so an
\* attempt starts from the slots as the attempt before left them.
Prompting_slots_outside_loop ==
    /\ pc = "Prompting"
    /\ stdin.scripted \/ attempts < MaxAttempts
    /\ t' \in IF line.kind = "line"
             THEN {fill(call.T, istringstream(line.text), f, 1).t : f \in FreshSlots(call.T)}
             ELSE FreshSlots(call.T)
    /\ out' = Append(out, <<"cout", ask_for_args(call).message>>)
    /\ attempts' = attempts + 1
    /\ pc' = "Reading"
    /\ line' = NoInput
    /\ evals' = <<>>
    /\ UNCHANGED <<call, cin, result, stdin>>

\* The head of the loop in ask_for and the first statement of ask_for_impl:
\* fresh slots are created and the prompt is written; no line is read yet.
\* The loop has no limit of its own: a script bounds the attempts by its
\* length, an interactive console is explored up to MaxAttempts attempts.
Prompting ==
    /\ pc = "Prompting"
    /\ stdin.scripted \/ attempts < MaxAttempts
    /\ t' \in FreshSlots(call.T)
    /\ out' = Append(out, <<"cout", ask_for_args(call).message>>)
    /\ attempts' = attempts + 1
    /\ pc' = "Reading"
    /\ line' = NoInput
    /\ evals' = <<>>
    /\ UNCHANGED <<call, cin, result, stdin>>

\* Mutant of fill_state: eofbit is added whether or not text is left.
fill_state_eof_always(s, r) ==
    [t |-> r.t, bits |-> [r.ss.st EXCEPT !.eof = TRUE]]

\* The end of get_line_fill, r being the slots and the string stream after
\* the extractions from the line s: eofbit is added when nothing is left to
\* read (in_avail() == 0), and the bits go to std::cin.
fill_state(s, r) ==
    [t |-> r.t,
     bits |-> IF Len(s) + 1 - r.ss.pos = 0 THEN [r.ss.st EXCEPT !.eof = TRUE]
              ELSE r.ss.st]

\* The fill of get_line_fill once a line s has been read from a good stream:
\* the slots after it and the bits it sets on std::cin.
line_fill(T, s, slots) ==
    IF Len(T) = 1 /\ s = <<>> /\ T[1] = "string"
    THEN [t |-> slots, bits |-> [goodbit EXCEPT !.eof = TRUE]]
    ELSE fill_state(s, fill(T, istringstream(s), slots, 1))

\* Mutant of after_getline: eof is not thrown but handled like any stream
\* that is not good.
after_getline_no_throw(st, input, r) ==
    /\ line' = input
    /\ IF ~good(st)
       THEN /\ cin' = st
            /\ t' = t
            /\ pc' = "Checking"
       ELSE /\ cin' = setstate(st, r.bits)
            /\ t' = r.t
            /\ pc' = "Checking"

\* Mutant of after_getline: any stream that is not good ends the loop like
\* the end of the input.
after_getline_bad_aborts(st, input, r) ==
    /\ line' = input
    /\ IF ~good(st)
       THEN /\ cin' = st
            /\ t' = <<>>
            /\ pc' = "Aborted"
       ELSE /\ cin' = setstate(st, r.bits)
            /\ t' = r.t
            /\ pc' = "Checking"

\* get_line_fill after std::getline left std::cin in state st.
after_getline(st, input, r) ==
    /\ line' = input
    /\ IF eof(st)
       THEN /\ cin' = st
            /\ t' = <<>>
            /\ pc' = "Aborted"
       ELSE IF ~good(st)
       THEN /\ cin' = st
            /\ t' = t
            /\ pc' = "Checking"
       ELSE /\ cin' = setstate(st, r.bits)
            /\ t' = r.t
            /\ pc' = "Checking"

\* get_line_fill: throws on eof, returns at once on a stream that is not
\* good, and otherwise fills the slots from the line.
get_line_fill ==
    /\ pc = "Reading"
    /\ \E input \in Met(cin, stdin) :
         after_getline(setstate(cin, getline(cin, input)), input,
                       line_fill(call.T, input.text, t))
    /\ stdin' = AfterRead(cin, stdin)
    /\ UNCHANGED <<call, out, result, attempts, evals>>

\* Mutant of condition_errors: the overloads for sequences are in force, so
\* the condition is tested on every element of a sequence slot.
RECURSIVE condition_errors_per_element(_, _, _, _, _)
condition_errors_per_element(condition, T, slots, i, errors) ==
    IF i > Len(slots) THEN errors
    ELSE condition_errors_per_element(condition, T, slots, i + 1,
            IF T[i] \in {"vector", "array"}
            THEN \E k \in 1..Len(slots[i]) : ~Holds(condition, "int", slots[i][k])
            ELSE ~Holds(condition, T[i], slots[i]))

\* errors = condition_errors(t, condition) for every slot in order, starting
\* from true: each assignment replaces the one before.
RECURSIVE condition_errors(_, _, _, _, _)
condition_errors(condition, T, slots, i, errors) ==
    IF i > Len(slots) THEN errors
    ELSE condition_errors(condition, T, slots, i + 1, ~Holds(condition, T[i], slots[i]))

\* The arguments f is called with by the calls condition_errors(t, f) of
\* ask_for_impl, in order: every slot once, each as a whole.
RECURSIVE condition_calls(_, _)
condition_calls(slots, i) ==
    IF i > Len(slots) THEN <<>>
    ELSE <<slots[i]>> \o condition_calls(slots, i + 1)

\* Mutant of ask_for_impl: excess input is tested before the parse failure.
ask_for_impl_excess_first(args, T, slots, st) ==
    IF bad(st)
    THEN [wrote |-> <<<<"cerr", CannotReadMessage>>>>, ret |-> FALSE, evals |-> <<>>]
    ELSE IF ~eof(st)
    THEN [wrote |-> <<<<"cout", ExcessInputMessage>>>>, ret |-> FALSE, evals |-> <<>>]
    ELSE IF fail(st)
    THEN [wrote |-> <<<<"cout", args.parse_error \o "\n">>>>, ret |-> FALSE, evals |-> <<>>]
    ELSE IF condition_errors(args.condition, T, slots, 1, TRUE)
    THEN [wrote |-> <<<<"cout", args.condition_error \o "\n">>>>, ret |-> FALSE,
          evals |-> condition_calls(slots, 1)]
    ELSE [wrote |-> <<>>, ret |-> TRUE, evals |-> condition_calls(slots, 1)]

\* Mutant of ask_for_impl: the tests are not chained, so a line that fails to
\* parse and is not used up gets both messages.
ask_for_impl_two_messages(args, T, slots, st) ==
    IF bad(st)
    THEN [wrote |-> <<<<"cerr", CannotReadMessage>>>>, ret |-> FALSE, evals |-> <<>>]
    ELSE IF fail(st) /\ ~eof(st)
    THEN [wrote |-> <<<<"cout", args.parse_error \o "\n">>, <<"cout", ExcessInputMessage>>>>,
          ret |-> FALSE, evals |-> <<>>]
    ELSE IF fail(st)
    THEN [wrote |-> <<<<"cout", args.parse_error \o "\n">>>>, ret |-> FALSE, evals |-> <<>>]
    ELSE IF ~eof(st)
    THEN [wrote |-> <<<<"cout", ExcessInputMessage>>>>, ret |-> FALSE, evals |-> <<>>]
    ELSE IF condition_errors(args.condition, T, slots, 1, TRUE)
    THEN [wrote |-> <<<<"cout", args.condition_error \o "\n">>>>, ret |-> FALSE,
          evals |-> condition_calls(slots, 1)]
    ELSE [wrote |-> <<>>, ret |-> TRUE, evals |-> condition_calls(slots, 1)]

\* Mutant of ask_for_impl: the parse failure is not tested.
ask_for_impl_no_parse_test(args, T, slots, st) ==
    IF bad(st)
    THEN [wrote |-> <<<<"cerr", CannotReadMessage>>>>, ret |-> FALSE, evals |-> <<>>]
    ELSE IF ~eof(st)
    THEN [wrote |-> <<<<"cout", ExcessInputMessage>>>>, ret |-> FALSE, evals |-> <<>>]
    ELSE IF condition_errors(args.condition, T, slots, 1, TRUE)
    THEN [wrote |-> <<<<"cout", args.condition_error \o "\n">>>>, ret |-> FALSE,
          evals |-> condition_calls(slots, 1)]
    ELSE [wrote |-> <<>>, ret |-> TRUE, evals |-> condition_calls(slots, 1)]

\* What ask_for_impl does after get_line_fill returned: the text it writes
\* (<<>> when none), the value it returns and the arguments it called the
\* condition with.
ask_for_impl(args, T, slots, st) ==
    IF bad(st)
    THEN [wrote |-> <<<<"cerr", CannotReadMessage>>>>, ret |-> FALSE, evals |-> <<>>]
    ELSE IF fail(st)
    THEN [wrote |-> <<<<"cout", args.parse_error \o "\n">>>>, ret |-> FALSE, evals |-> <<>>]
    ELSE IF ~eof(st)
    THEN [wrote |-> <<<<"cout", ExcessInputMessage>>>>, ret |-> FALSE, evals |-> <<>>]
    ELSE IF condition_errors(args.condition, T, slots, 1, TRUE)
    THEN [wrote |-> <<<<"cout", args.condition_error \o "\n">>>>, ret |-> FALSE,
          evals |-> condition_calls(slots, 1)]
    ELSE [wrote |-> <<>>, ret |-> TRUE, evals |-> condition_calls(slots, 1)]

\* Mutant of after_impl: std::cin is not cleared before true is returned.
after_impl_no_clear_on_return(r) ==
    /\ out' = out \o r.wrote
    /\ evals' = r.evals
    /\ IF r.ret
       THEN /\ result' = t
            /\ pc' = "Accepted"
            /\ cin' = cin
       ELSE /\ result' = result
            /\ pc' = "Prompting"
            /\ cin' = goodbit
    /\ t' = <<>>

\* Mutant of after_impl: std::cin is not cleared before false is returned.
after_impl_no_clear_on_retry(r) ==
    /\ out' = out \o r.wrote
    /\ evals' = r.evals
    /\ IF r.ret
       THEN /\ result' = t
            /\ pc' = "Accepted"
            /\ cin' = goodbit
       ELSE /\ result' = result
            /\ pc' = "Prompting"
            /\ cin' = cin
    /\ t' = <<>>

\* The rest of ask_for_impl and the test of its result in ask_for: a message
\* is written or the slots are returned, and std::cin is cleared either way.
after_impl(r) ==
    /\ out' = out \o r.wrote
    /\ evals' = r.evals
    /\ cin' = goodbit
    /\ IF r.ret
       THEN /\ result' = t
            /\ pc' = "Accepted"
       ELSE /\ result' = result
            /\ pc' = "Prompting"
    /\ t' = <<>>

Checking ==
    /\ pc = "Checking"
    /\ after_impl(ask_for_impl(ask_for_args(call), call.T, t, cin))
    /\ UNCHANGED <<call, line, attempts, stdin>>

Next == Prompting \/ get_line_fill \/ Checking

Spec == Init /\ [][Next]_vars

\* The runs on a scripted console.
ScriptSpec == ScriptInit /\ [][Next]_vars

\* ===================================================================
\* Vocabulary of the properties
\* ===================================================================
Last(seq) == seq[Len(seq)]

ImplArgs == ask_for_args(call)

PromptEntry == <<"cout", call.message>>

ExcessEntry == <<"cout", ExcessInputMessage>>

ConditionErrorEntry == <<"cout", ImplArgs.condition_error \o "\n">>

\* A parse-error message: the text the caller supplied or the default text.
ParseErrorEntries ==
    {<<"cout", call.parse_error \o "\n">>, <<"cout", DefaultParseError \o "\n">>}

\* The attempt on a terminated line is over: the loop returned, or it wrote
\* its message and is about to prompt again.
LineAttemptDone == line.kind = "line" /\ pc \in {"Prompting", "Accepted"}

Retried == pc = "Prompting" /\ line.kind # "none"

HasVector(T) == \E i \in 1..Len(T) : T[i] = "vector"

\* Tokens: the maximal runs of non-whitespace characters of a line.
FirstRun(s) ==
    IF \E i \in 1..Len(s) : IsSpace(s[i])
    THEN (CHOOSE i \in 1..Len(s) : IsSpace(s[i]) /\ \A j \in 1..(i - 1) : ~IsSpace(s[j])) - 1
    ELSE Len(s)

RECURSIVE Tokens(_)
Tokens(s) ==
    IF s = <<>> THEN <<>>
    ELSE IF IsSpace(Head(s)) THEN Tokens(Tail(s))
    ELSE <<SubSeq(s, 1, FirstRun(s))>> \o Tokens(SubSeq(s, FirstRun(s) + 1, Len(s)))

Unsigned(tok) == IF tok # <<>> /\ Head(tok) \in {"-", "+"} THEN Tail(tok) ELSE tok

\* A token that is an integer literal as a whole: optional sign, then digits,
\* fewer than ten of them, so that the value is in the range of int.
WellFormedInt(tok) ==
    /\ Unsigned(tok) # <<>>
    /\ Len(Unsigned(tok)) < 10
    /\ \A i \in 1..Len(Unsigned(tok)) : IsDigit(Unsigned(tok)[i])

RECURSIVE Magnitude(_)
Magnitude(d) ==
    IF d = <<>> THEN 0
    ELSE Magnitude(SubSeq(d, 1, Len(d) - 1)) * 10 + DigitVal(d[Len(d)])

IntValue(tok) == IF Head(tok) = "-" THEN -Magnitude(Unsigned(tok)) ELSE Magnitude(Unsigned(tok))

\* The element type each successive token of a line is needed for.
RECURSIVE Flat(_)
Flat(T) ==
    IF T = <<>> THEN <<>>
    ELSE (IF Head(T) = "array" THEN [i \in 1..ArrayN |-> "int"] ELSE <<Head(T)>>)
         \o Flat(Tail(T))

ValidToken(type, tok) ==
    CASE type = "int" -> WellFormedInt(tok)
      [] type = "string" -> TRUE
      [] type = "char" -> Len(tok) = 1
      [] OTHER -> FALSE

\* The state of the string stream after the slots of T were extracted from s.
AfterFill(T, s) == fill(T, istringstream(s), CHOOSE f \in FreshSlots(T) : TRUE, 1).ss

\* Some slot's formatted extraction failed on the line.
ExtractionFails(T, s) == fail(AfterFill(T, s).st)

\* ===================================================================
\* C1: whenever ask_for returns, the predicate holds for every returned
\* slot value, whatever the position of the slot.
\* ===================================================================
C1_EverySlotSatisfiesPredicate ==
    pc = "Accepted" =>
        \A i \in 1..Len(call.T) : Holds(ImplArgs.condition, call.T[i], result[i])

\* ===================================================================
\* C2: for a request whose only slot is a variable-length sequence, a token
\* that fails to parse as an element ends the sequence and the line is
\* accepted: the attempt writes neither the parse-error nor the excess-input
\* message, and a returned sequence is the maximal prefix of well-formed
\* integer tokens of the line.
\* ===================================================================
RECURSIVE IntPrefix(_)
IntPrefix(toks) ==
    IF toks = <<>> \/ ~WellFormedInt(Head(toks)) THEN <<>>
    ELSE <<IntValue(Head(toks))>> \o IntPrefix(Tail(toks))

C2_UnparseableTokenEndsSequence ==
    (call.T = <<"vector">> /\ LineAttemptDone) =>
        /\ Last(out) \notin (ParseErrorEntries \cup {ExcessEntry})
        /\ pc = "Accepted" => result = <<IntPrefix(Tokens(line.text))>>

\* ===================================================================
\* C3: EndOfInput is raised only when the input ends before any character
\* of a line is available; characters followed by the end of the input are
\* a line like any other.
\* ===================================================================
C3_EndOfInputOnlyBeforeAnyCharacter ==
    pc = "Aborted" => line.text = <<>>

\* ===================================================================
\* C4: end-of-input met on a read, on the first attempt or a later one,
\* aborts the loop: no value is returned, nothing is written after the
\* prompt of that attempt and nothing can happen afterwards; and the loop
\* stops in no other way than by accepting or aborting.
\* ===================================================================
C4_EndOfInputAborts ==
    /\ (line.kind = "eof") <=> (pc = "Aborted")
    /\ pc = "Aborted" =>
          /\ result = <<>>
          /\ Last(out) = PromptEntry
          /\ Len(out) >= attempts
          /\ ~ENABLED Next
    /\ pc \in {"Reading", "Checking"} => ENABLED Next
    /\ (pc = "Prompting" /\ attempts < MaxAttempts) => ENABLED Next

\* End-of-input met after a retry.
C4_Witness == pc = "Aborted" /\ attempts > 1 /\ Len(out) > attempts

\* ===================================================================
\* C5: for a request with no variable-length sequence slot, a line whose
\* leading tokens fill every slot and which has further tokens makes the
\* attempt write the excess-input message and prompt again; a returned
\* result never comes from a line with more tokens than the slots need, nor
\* from one with characters left unread.
\* ===================================================================
ExcessTokens(T, s) ==
    /\ Len(Tokens(s)) > Len(Flat(T))
    /\ \A j \in 1..Len(Flat(T)) : ValidToken(Flat(T)[j], Tokens(s)[j])

C5_ExcessInputRejected ==
    (~HasVector(call.T) /\ LineAttemptDone) =>
        /\ ExcessTokens(call.T, line.text) =>
              /\ pc = "Prompting"
              /\ Last(out) = ExcessEntry
              /\ result = <<>>
        /\ pc = "Accepted" =>
              /\ Len(Tokens(line.text)) <= Len(Flat(call.T))
              /\ AfterFill(call.T, line.text).pos > Len(line.text)

\* A line with one token too many was rejected with the excess-input message.
C5_Witness ==
    /\ ~HasVector(call.T)
    /\ Retried
    /\ line.kind = "line"
    /\ ExcessTokens(call.T, line.text)
    /\ Last(out) = ExcessEntry

\* A request of fixed-arity slots on a line for which the extraction of some
\* slot fails.  (The empty line of a single text slot is accepted: see C8.)
ParseFailure(T, s) ==
    /\ ~HasVector(T)
    /\ ~(T = <<"string">> /\ s = <<>>)
    /\ ExtractionFails(T, s)

\* ===================================================================
\* C6 as stated: for a request of fixed-arity slots, a line in which some
\* token needed by a slot is not, as a whole, a valid token of that slot's
\* type makes the attempt write a parse-error message and prompt again; the
\* loop does not return on that attempt and does not abort.
\* ===================================================================
InvalidNeededToken(T, s) ==
    /\ ~HasVector(T)
    /\ \E j \in 1..Len(Flat(T)) :
         j <= Len(Tokens(s)) /\ ~ValidToken(Flat(T)[j], Tokens(s)[j])
\* character, a text slot the characters up to the next whitespace.
RECURSIVE SkipBlanks(_, _)
SkipBlanks(s, p) == IF p <= Len(s) /\ IsSpace(s[p]) THEN SkipBlanks(s, p + 1) ELSE p

RECURSIVE DigitRunEnd(_, _)
DigitRunEnd(s, p) == IF p <= Len(s) /\ IsDigit(s[p]) THEN DigitRunEnd(s, p + 1) ELSE p

RECURSIVE WordEnd(_, _)
WordEnd(s, p) == IF p <= Len(s) /\ ~IsSpace(s[p]) THEN WordEnd(s, p + 1) ELSE p

FirstDigit(s, p) ==
    IF SkipBlanks(s, p) <= Len(s) /\ s[SkipBlanks(s, p)] \in {"-", "+"}
    THEN SkipBlanks(s, p) + 1
    ELSE SkipBlanks(s, p)

\* The slot of the given type finds nothing to read from position p on.
NothingToRead(type, s, p) ==
    IF type = "int" THEN DigitRunEnd(s, FirstDigit(s, p)) = FirstDigit(s, p)
    ELSE SkipBlanks(s, p) > Len(s)

\* The position after what the slot read.
ReadEnd(type, s, p) ==
    CASE type = "int" -> DigitRunEnd(s, FirstDigit(s, p))
      [] type = "char" -> SkipBlanks(s, p) + 1
      [] type = "string" -> WordEnd(s, SkipBlanks(s, p))

\* Some slot of F, read in order from position p on, finds nothing to read.
RECURSIVE SomeSlotUnfilled(_, _, _)
SomeSlotUnfilled(F, s, p) ==
    IF F = <<>> THEN FALSE
    ELSE NothingToRead(Head(F), s, p)
         \/ SomeSlotUnfilled(Tail(F), s, ReadEnd(Head(F), s, p))

UnfilledSlot(T, s) ==
    /\ ~HasVector(T)
    /\ ~(T = <<"string">> /\ s = <<>>)
    /\ SomeSlotUnfilled(Flat(T), s, 1)

\* ===================================================================
C7_SuppliedParseErrorWritten ==
    (LineAttemptDone /\ ParseFailure(call.T, line.text)) =>
        Last(out) = <<"cout", call.parse_error \o "\n">>

\* ===================================================================
\* C8: an empty line fills a single text slot with the empty string and goes
\* on to the predicate (returned when it holds, condition error when not);
\* for every other shape of fixed arity or of two or more slots an empty
\* line is a ParseFailure.
\* ===================================================================
C8_EmptyLine ==
    (LineAttemptDone /\ line.text = <<>>) =>
        IF call.T = <<"string">>
        THEN IF Holds(ImplArgs.condition, "string", <<>>)
             THEN pc = "Accepted" /\ result = <<<<>>>> /\ Last(out) = PromptEntry
             ELSE pc = "Prompting" /\ Last(out) = ConditionErrorEntry
        ELSE IF call.T = <<"vector">> THEN TRUE
        ELSE pc = "Prompting" /\ Last(out) \in ParseErrorEntries

\* ===================================================================
\* C9 as stated: a fixed-size sequence of arity N given a line with fewer
\* than N tokens is a ParseFailure.
\* ===================================================================
C9_FewerTokensThanArity ==
    (call.T = <<"array">> /\ LineAttemptDone /\ Len(Tokens(line.text)) < ArrayN) =>
        /\ pc = "Prompting"
        /\ Last(out) \in ParseErrorEntries

\* The number of integers formatted extraction finds from position p on:
\* each is an optional sign and digits, after optional whitespace; a sign
\* or the end of a digit run starts the next one even without whitespace.
RECURSIVE SkipSpaces(_, _)
SkipSpaces(s, p) == IF p <= Len(s) /\ IsSpace(s[p]) THEN SkipSpaces(s, p + 1) ELSE p

RECURSIVE SkipDigits(_, _)
SkipDigits(s, p) == IF p <= Len(s) /\ IsDigit(s[p]) THEN SkipDigits(s, p + 1) ELSE p

AfterSign(s, p) == IF p <= Len(s) /\ s[p] \in {"-", "+"} THEN p + 1 ELSE p

RECURSIVE CountInts(_, _)
CountInts(s, p) ==
    IF SkipDigits(s, AfterSign(s, SkipSpaces(s, p))) = AfterSign(s, SkipSpaces(s, p))
    THEN 0
    ELSE 1 + CountInts(s, SkipDigits(s, AfterSign(s, SkipSpaces(s, p))))

\* C9 as amended: a fixed-size sequence of arity N given a line from which
\* fewer than N integers can be extracted is a ParseFailure: a parse-error
\* message is written, the loop prompts again, and no result is returned
\* with default-filled positions.
C9_FewerIntegersThanArity ==
    (call.T = <<"array">> /\ LineAttemptDone /\ CountInts(line.text, 1) < ArrayN) =>
        /\ pc = "Prompting"
        /\ Last(out) \in ParseErrorEntries
        /\ result = <<>>

\* A line with one integer was rejected for an array of more than one.
C9_Witness ==
    /\ call.T = <<"array">>
    /\ Retried
    /\ line = [kind |-> "line", text |-> <<"1">>]
    /\ CountInts(line.text, 1) = 1
    /\ ArrayN > 1
    /\ Last(out) \in ParseErrorEntries

\* ===================================================================
\* C10: a single-value request whose first line is exactly one valid token
\* of the target type, with a value satisfying the predicate, returns that
\* value on the first attempt, and the transcript is one copy of the prompt.
\* ===================================================================
\* The value a line that is one valid token denotes for a single slot.
TokenValue(type, s) ==
    CASE type = "int" -> IntValue(s)
      [] type = "string" -> s
      [] type = "char" -> s[1]
      [] type = "vector" -> <<IntValue(s)>>
      [] type = "array" -> <<IntValue(s)>>

OneValidToken(type, s) ==
    /\ Tokens(s) = <<s>>
    /\ CASE type = "int" -> WellFormedInt(s)
         [] type = "string" -> TRUE
         [] type = "char" -> Len(s) = 1
         [] type = "vector" -> WellFormedInt(s)
         [] type = "array" -> ArrayN = 1 /\ WellFormedInt(s)

C10_Case ==
    /\ Len(call.T) = 1
    /\ attempts = 1
    /\ LineAttemptDone
    /\ OneValidToken(call.T[1], line.text)
    /\ Holds(call.condition, call.T[1], TokenValue(call.T[1], line.text))

C10_ValidTokenReturnedAtOnce ==
    C10_Case =>
        /\ pc = "Accepted"
        /\ result = <<TokenValue(call.T[1], line.text)>>
        /\ out = <<PromptEntry>>

\* A negative integer accepted at once under a predicate that admits it.
C10_Witness ==
    /\ C10_Case
    /\ call.T = <<"int">>
    /\ call.has_condition
    /\ pc = "Accepted"
    /\ result = <<-1>>

\* ===================================================================
\* Vocabulary of the properties of scripted runs
\* ===================================================================
\* The script of the run and the lines of it read so far.
Script == stdin.lines

LinesRead == stdin.next - 1

\* ===================================================================
\* C11: the returned slots come from the accepted line alone.  Every attempt
\* starts from freshly created slots, the slots of a rejected attempt are
\* discarded, and the result is what filling fresh slots from the accepted
\* line gives, whatever the fresh slots held and whatever the rejected lines
\* before it had put into theirs.
\* ===================================================================
C11_ResultFromAcceptedLineOnly ==
    /\ pc = "Reading" => t \in FreshSlots(call.T)
    /\ pc \in {"Prompting", "Accepted", "Aborted"} => t = <<>>
    /\ pc = "Accepted" =>
          /\ line.text = Script[LinesRead]
          /\ \A f \in FreshSlots(call.T) : result = line_fill(call.T, line.text, f).t

\* A sequence accepted after a rejected line that had appended an element to
\* the sequence of its own attempt.
C11_Witness ==
    /\ pc = "Accepted"
    /\ call.T = <<"vector">>
    /\ Script = <<<<"1", " ", "a">>, <<"1">>>>
    /\ result = <<<<1>>>>

\* ===================================================================
\* C12: on a finite script (and no fatal stream failure) ask_for always
\* terminates, and only in Accepted or Aborted: it returns at the first line
\* of the script that fills every slot, leaves no excess input and passes
\* the predicate, having made one attempt per line up to it, and aborts at
\* the end of the input when the script has no such line, however many
\* lines were rejected before.  The three tests are those the loop performs:
\* no failbit after the fill, eofbit after the fill, and the result of
\* condition_errors.  Termination is stated without fairness: every step
\* strictly decreases a natural number, and a step is possible in every
\* state other than Accepted and Aborted (a prompt can be written, a read
\* meets a line or the end of the input, a read line can be checked), so no
\* run is infinite and none stops anywhere else.
\* ===================================================================
SomeFresh(T) == CHOOSE f \in FreshSlots(T) : TRUE

FillsEverySlot(r) == ~fail(r.bits)

LeavesNoExcess(r) == eof(r.bits)

PassesPredicate(c, r) ==
    ~condition_errors(ask_for_args(c).condition, c.T, r.t, 1, TRUE)

AcceptableFill(c, r) ==
    FillsEverySlot(r) /\ LeavesNoExcess(r) /\ PassesPredicate(c, r)

Acceptable(c, s) == AcceptableFill(c, line_fill(c.T, s, SomeFresh(c.T)))

\* The index of the first acceptable line of a script, 0 when it has none.
FirstAcceptable(c, lines) ==
    IF \E i \in 1..Len(lines) : Acceptable(c, lines[i])
    THEN CHOOSE i \in 1..Len(lines) :
            /\ Acceptable(c, lines[i])
            /\ \A j \in 1..(i - 1) : ~Acceptable(c, lines[j])
    ELSE 0

\* C12, the outcome: Accepted at the first acceptable line, Aborted when the
\* script has none.
C12_Outcome ==
    /\ pc = "Accepted" =>
          /\ FirstAcceptable(call, Script) # 0
          /\ attempts = FirstAcceptable(call, Script)
          /\ LinesRead = attempts
          /\ line.text = Script[attempts]
    /\ pc = "Aborted" =>
          /\ FirstAcceptable(call, Script) = 0
          /\ attempts = Len(Script) + 1
          /\ LinesRead = Len(Script)
          /\ line.kind = "eof"

\* A bound on the steps still to come: three per line not yet read and
\* for the end of the input, less those of the current attempt already taken.
Rank(p) ==
    CASE p = "Prompting" -> 3
      [] p = "Reading" -> 2
      [] p = "Checking" -> 4
      [] p \in {"Accepted", "Aborted"} -> 0

StepsLeft == 3 * (Len(Script) - LinesRead) + Rank(pc)

\* C12: the outcome is right, every step lowers StepsLeft, and every state
\* other than Accepted and Aborted has a step.
C12_TerminatesAcceptedOrAborted ==
    /\ [](C12_Outcome)
    /\ [](StepsLeft \in Nat)
    /\ [](pc = "Prompting" => ENABLED Prompting)
    /\ [](pc = "Reading" => Met(cin, stdin) # {})
    /\ [](pc = "Checking" => ENABLED Checking)
    /\ [][StepsLeft' < StepsLeft]_vars

\* The loop rejected every line but the last of its script and returned at
\* that one, the first acceptable.
C12_Witness ==
    /\ pc = "Accepted"
    /\ attempts = Len(Script)
    /\ attempts > 1
    /\ \A j \in 1..(attempts - 1) : ~Acceptable(call, Script[j])

\* ===================================================================
\* C13: determinism.  The transcript and the terminal outcome of a run are
\* those of the reference run of the same call on the same script, computed
\* with one fixed choice for every value the program leaves indeterminate
\* (the uninitialised slots); hence any two runs of the same call on the
\* same script, from a good stream, end alike.
\* ===================================================================
\* What one attempt does with the fill r of its line.
AttemptOn(c, r) == ask_for_impl(ask_for_args(c), c.T, r.t, setstate(goodbit, r.bits))

Prompted(c, transcript) == Append(transcript, <<"cout", ask_for_args(c).message>>)

RECURSIVE ReferenceRun(_, _, _, _)
ReferenceAfter(c, lines, i, transcript, r, a) ==
    IF a.ret THEN [out |-> transcript, pc |-> "Accepted", result |-> r.t]
    ELSE ReferenceRun(c, lines, i + 1, transcript \o a.wrote)

ReferenceOn(c, lines, i, transcript, r) ==
    ReferenceAfter(c, lines, i, transcript, r, AttemptOn(c, r))

ReferenceRun(c, lines, i, transcript) ==
    IF i > Len(lines)
    THEN [out |-> Prompted(c, transcript), pc |-> "Aborted", result |-> <<>>]
    ELSE ReferenceOn(c, lines, i, Prompted(c, transcript),
                     line_fill(c.T, lines[i], SomeFresh(c.T)))

\* C13: a finished run has the transcript, outcome and result of the
\* reference run of its call on its script.
C13_Deterministic ==
    pc \in {"Accepted", "Aborted"} =>
        [out |-> out, pc |-> pc, result |-> result] = ReferenceRun(call, Script, 1, <<>>)

\* A run that returned on its second line, the first one having left an
\* uninitialised position of the array untouched.
C13_Witness ==
    /\ pc = "Accepted"
    /\ call.T = <<"array">>
    /\ Script = <<<<"1">>, <<"1", " ", "1">>>>
    /\ Len(out) = 3
    /\ Len(result[1]) = ArrayN

\* ===================================================================
\* C14: a line that fills every slot and whose unread remainder is nothing
\* but whitespace counts as fully consumed: the attempt does not write the
\* excess-input message but goes on to the predicate.
\* ===================================================================
\* Every token of the line is taken by a slot and is valid for it: as many
\* tokens as the slots need, or, when the last slot is a variable-length
\* sequence, any number of integer tokens after those of the slots before.
FrontTokensValid(F, toks) ==
    /\ Len(toks) >= Len(F)
    /\ \A j \in 1..Len(F) : ValidToken(F[j], toks[j])

TokensFillSlots(T, toks) ==
    IF T[Len(T)] = "vector"
    THEN /\ FrontTokensValid(Flat(SubSeq(T, 1, Len(T) - 1)), toks)
         /\ \A j \in (Len(Flat(SubSeq(T, 1, Len(T) - 1))) + 1)..Len(toks) :
                WellFormedInt(toks[j])
    ELSE /\ FrontTokensValid(Flat(T), toks)
         /\ Len(toks) = Len(Flat(T))

FilledWithBlankRemainder(T, s) ==
    /\ TokensFillSlots(T, Tokens(s))
    /\ s # <<>>
    /\ IsSpace(Last(s))

\* C14: valid tokens for every slot followed by whitespace only are not
\* excess input, and the predicate is called.
C14_TrailingWhitespaceIsNotExcess ==
    (LineAttemptDone /\ FilledWithBlankRemainder(call.T, line.text)) =>
        /\ Last(out) # ExcessEntry
        /\ evals # <<>>

\* ===================================================================
\* C15: every attempt that neither returns nor aborts writes exactly one
\* failure message after its prompt, chosen in the order fatal-stream
\* diagnostic, parse error, excess input, condition error: a line on which a
\* needed token does not parse gets the parse-error message alone even when
\* text is left unread; and the predicate is called in no attempt that ends
\* in one of the first three.
\* ===================================================================
CannotReadEntry == <<"cerr", CannotReadMessage>>

ParseErrorEntry == <<"cout", ImplArgs.parse_error \o "\n">>

\* The bits the fill of a line leaves on std::cin.
FillBits(T, s) == line_fill(T, s, SomeFresh(T)).bits

\* Two sequences with the same elements in the same order.
SameSeq(a, b) == Len(a) = Len(b) /\ \A i \in 1..Len(a) : a[i] = b[i]

\* The message the order of precedence gives an attempt that does not return.
ExpectedMessage ==
    IF line.kind = "bad" THEN CannotReadEntry
    ELSE IF fail(FillBits(call.T, line.text)) THEN ParseErrorEntry
    ELSE IF ~eof(FillBits(call.T, line.text)) THEN ExcessEntry
    ELSE ConditionErrorEntry

\* C15: prompt and one message alternate, the message is the one the order
\* of precedence gives, and the predicate is called only before a condition
\* error.
C15_OneMessageByPrecedence ==
    /\ Len(out) = IF pc = "Prompting" THEN 2 * attempts ELSE 2 * attempts - 1
    /\ \A k \in 1..Len(out) : (out[k] = PromptEntry) <=> (k % 2 = 1)
    /\ Retried =>
          /\ Last(out) = ExpectedMessage
          /\ (Last(out) # ConditionErrorEntry) => evals = <<>>
          /\ (Last(out) = ConditionErrorEntry) =>
                SameSeq(evals, line_fill(call.T, line.text, SomeFresh(call.T)).t)
    /\ (Retried /\ line.kind = "line" /\ ~HasVector(call.T)
          /\ ExtractionFails(call.T, line.text)
          /\ ~(call.T = <<"string">> /\ line.text = <<>>)) =>
          Last(out) = ParseErrorEntry

\* A line whose first token is no integer and which has a second token was
\* answered with the parse-error message alone.
C15_Witness ==
    /\ Retried
    /\ call.T = <<"int">>
    /\ line = [kind |-> "line", text |-> <<"a", " ", "1">>]
    /\ out = <<PromptEntry, ParseErrorEntry>>
    /\ evals = <<>>

\* ===================================================================
\* C16: a fatal stream failure on a read (badbit without the end of the
\* input) neither aborts nor returns: the attempt writes the fixed
\* diagnostic to the diagnostic channel and nothing else, calls no
\* predicate, clears the stream and is followed by a new prompt, the loop
\* being then as it was at its start but for the transcript.  So as long as
\* every read fails this way the loop is in neither Accepted nor Aborted and
\* can go on.
\* ===================================================================
\* Every read so far met the fatal failure.
EveryReadBad ==
    /\ line.kind \in {"none", "bad"}
    /\ \A k \in 1..Len(out) : out[k] \in {PromptEntry, CannotReadEntry}

\* C16: a fatal read is followed by the diagnostic, a clean stream and a new
\* prompt, never by Accepted or Aborted.
C16_FatalFailureRetries ==
    /\ line.kind = "bad" => pc \in {"Checking", "Prompting"}
    /\ (line.kind = "bad" /\ pc = "Checking") => bad(cin) /\ ~eof(cin)
    /\ (line.kind = "bad" /\ pc = "Prompting") =>
          /\ Last(out) = CannotReadEntry
          /\ out[Len(out) - 1] = PromptEntry
          /\ cin = goodbit
          /\ t = <<>>
          /\ evals = <<>>
          /\ result = <<>>
          /\ attempts < MaxAttempts => ENABLED Prompting
    /\ EveryReadBad =>
          /\ pc \in {"Prompting", "Reading", "Checking"}
          /\ Len(out) = IF pc = "Prompting" THEN 2 * attempts ELSE 2 * attempts - 1

\* The read failed in every attempt the bound allows, and the loop is about
\* to prompt again.
C16_Witness ==
    /\ pc = "Prompting"
    /\ line.kind = "bad"
    /\ attempts = MaxAttempts
    /\ attempts > 1
    /\ \A k \in 1..attempts : out[2 * k] = CannotReadEntry

\* ===================================================================
\* C17: no stream flag outlives an attempt that completes.  When ask_for has
\* returned and at every prompt, the first one and those after a rejected
\* attempt, std::cin has no eof, fail or bad flag, although between the fill
\* and the decision it carries the flags of the fill: eofbit whenever the
\* whole line was used, failbit whenever an extraction failed for good.
\* ===================================================================
C17_FlagsClearedAfterAttempt ==
    /\ pc \in {"Accepted", "Prompting", "Reading"} => cin = goodbit
    /\ (pc = "Checking" /\ line.kind = "line") =>
          /\ cin = FillBits(call.T, line.text)
          /\ AfterFill(call.T, line.text).pos > Len(line.text) => eof(cin)
          /\ (ExtractionFails(call.T, line.text) /\ ~HasVector(call.T)
                /\ ~(call.T = <<"string">> /\ line.text = <<>>)) => fail(cin)

\* ask_for returned with a clean stream after an attempt that had set the
\* fail flag and one that had set the eof flag.
C17_Witness ==
    /\ pc = "Accepted"
    /\ attempts = 2
    /\ out[2] = ParseErrorEntry
    /\ cin = goodbit
    /\ eof(FillBits(call.T, line.text))

\* ===================================================================
\* C18: prompts and reads alternate, one line per attempt.  The prompt is
\* written once before each read; every attempt that ends in a rejection or
\* in Accepted has read exactly one line; the k-th attempt's outcome is that
\* of a single attempt on the k-th line of the input, whatever came before;
\* and after k attempts the transcript holds k prompts.
\* ===================================================================
Attempt(c, s) == AttemptOn(c, line_fill(c.T, s, SomeFresh(c.T)))

PromptCount == Cardinality({k \in 1..Len(out) : out[k] = PromptEntry})

\* The attempts that are over and did not return.
RejectedAttempts == IF pc = "Prompting" THEN attempts ELSE attempts - 1

\* C18: one prompt and one line per attempt, each attempt answered as a
\* single attempt on its own line.
C18_OnePromptOneLinePerAttempt ==
    /\ PromptCount = attempts
    /\ \A k \in 1..attempts : out[2 * k - 1] = PromptEntry
    /\ pc = "Reading" => Last(out) = PromptEntry /\ LinesRead = attempts - 1
    /\ pc \in {"Prompting", "Checking", "Accepted"} => LinesRead = attempts
    /\ (pc \in {"Checking", "Accepted"} \/ (pc = "Prompting" /\ attempts > 0)) =>
          line = [kind |-> "line", text |-> Script[attempts]]
    /\ \A k \in 1..RejectedAttempts :
          /\ ~Attempt(call, Script[k]).ret
          /\ <<out[2 * k]>> = Attempt(call, Script[k]).wrote
    /\ pc = "Accepted" =>
          /\ Attempt(call, Script[attempts]).ret
          /\ Len(out) = 2 * attempts - 1
          /\ SameSeq(result, line_fill(call.T, Script[attempts], SomeFresh(call.T)).t)

\* Two lines were read in two attempts, each answered on its own account.
C18_Witness ==
    /\ pc = "Prompting"
    /\ attempts = 2
    /\ LinesRead = 2
    /\ PromptCount = 2
    /\ out[2] = ExcessEntry
    /\ out[4] = ParseErrorEntry

\* ===================================================================
\* C19: the condition is not applied to the elements of a sequence slot.  In
\* an attempt that reaches the check the predicate is called once per slot,
\* a sequence slot being passed as a whole; for a request that is one
\* sequence the attempt is accepted exactly when that one call holds, and
\* rejected with the condition-error message otherwise.
\* ===================================================================
IsSequenceRequest(T) == T \in {<<"vector">>, <<"array">>}

\* C19: one predicate call per slot, a sequence passed whole, and a
\* single-sequence request accepted exactly when that call holds.
C19_SequenceCheckedAsAWhole ==
    /\ evals # <<>> => Len(evals) = Len(call.T)
    /\ pc = "Accepted" => SameSeq(evals, result)
    /\ (IsSequenceRequest(call.T) /\ LineAttemptDone /\ evals # <<>>) =>
          /\ Len(evals) = 1
          /\ SameSeq(evals[1], line_fill(call.T, line.text, SomeFresh(call.T)).t[1])
          /\ call.T = <<"array">> => Len(evals[1]) = ArrayN
          /\ IF Holds(ImplArgs.condition, call.T[1], evals[1])
             THEN pc = "Accepted"
             ELSE pc = "Prompting" /\ Last(out) = ConditionErrorEntry

\* A sequence with an element that is not positive was accepted under a
\* predicate that holds of every sequence and fails on such an integer.
C19_Witness ==
    /\ pc = "Accepted"
    /\ call.T = <<"vector">>
    /\ call.condition = "positive"
    /\ Len(evals) = 1
    /\ SameSeq(evals[1], <<1, -1>>)
    /\ ~Holds("positive", "int", evals[1][2])

\* ===================================================================
\* C20: a request whose only slot is a variable-length sequence never ends
\* an attempt in ParseFailure.  The fail flag of the extraction that ended
\* the sequence is cleared before the outcome is decided, so an attempt on a
\* line is accepted or gets the condition-error or the excess-input message;
\* an empty or blank line fills the slot with the empty sequence and goes on
\* to the predicate.
\* ===================================================================
Blank(s) == \A i \in 1..Len(s) : IsSpace(s[i])

\* C20: a single-sequence attempt never has the fail flag at the check nor
\* the parse-error message, and a blank line is checked as the empty sequence.
C20_SequenceNeverParseFailure ==
    (call.T = <<"vector">> /\ line.kind = "line") =>
        /\ pc = "Checking" => ~fail(cin)
        /\ pc = "Prompting" =>
              /\ Last(out) \in {ExcessEntry, ConditionErrorEntry}
              /\ Last(out) \notin ParseErrorEntries
        /\ (LineAttemptDone /\ Blank(line.text)) =>
              /\ Len(evals) = 1
              /\ evals[1] = <<>>
              /\ IF Holds(ImplArgs.condition, "vector", <<>>)
                 THEN pc = "Accepted" /\ result[1] = <<>>
                 ELSE pc = "Prompting" /\ Last(out) = ConditionErrorEntry

\* A blank line was accepted as the empty sequence.
C20_Witness ==
    /\ pc = "Accepted"
    /\ call.T = <<"vector">>
    /\ line = [kind |-> "line", text |-> <<" ", " ">>]
    /\ result[1] = <<>>
    /\ Len(evals) = 1

====
